---- MODULE Spec2Model ----
(***************************************************************************)
(* The plugin lifecycle of nollup (lib/impl/PluginLifecycle.js): the five  *)
(* hook calling conventions over the container's ordered plugin list and   *)
(* the lifecycle facade built on them, on JavaScript's single cooperative  *)
(* thread.  A call holds the thread (running) while it executes            *)
(* synchronously and gives it up at every await.                           *)
(***************************************************************************)
EXTENDS Integers, Sequences, FiniteSets, TLC

MaxPlugins == 3

(***************************************************************************)
(* JavaScript values, tagged by typeof.  A string is the sequence of its   *)
(* characters (of its segments, for a path).                               *)
(***************************************************************************)
Undefined == [t |-> "undefined"]
Null == [t |-> "null"]
Bool(b) == [t |-> "boolean", b |-> b]
Num(n) == [t |-> "number", n |-> n]
Str(s) == [t |-> "string", s |-> s]
PromiseObj == [t |-> "promise"]
List(l) == [t |-> "array", l |-> l]
Err(k, how) == [t |-> "error", plugin |-> k, how |-> how]

\* an object with the properties of the record f
Obj(f) == [t |-> "object"] @@ f

\* v.name: undefined when v has no such property
Prop(v, name) ==
    IF v.t = "object" /\ name \in DOMAIN v THEN v[name] ELSE Undefined

IsAbsent_Falsy(v) ==
    \/ v.t \in {"undefined", "null"}
    \/ v.t = "boolean" /\ ~v.b
    \/ v.t = "number" /\ v.n = 0
    \/ v.t = "string" /\ v.s = <<>>

\* hr !== null && hr !== undefined, negated
IsAbsent(v) == v.t \in {"undefined", "null"}

\* JavaScript's ToBoolean
Truthy(v) ==
    CASE v.t \in {"undefined", "null"} -> FALSE
      [] v.t = "boolean" -> v.b
      [] v.t = "number" -> v.n # 0
      [] v.t = "string" -> v.s # <<>>
      [] OTHER -> TRUE

(***************************************************************************)
(* A plugin's entry for the dispatched hook: no entry, a literal string,   *)
(* or a callable.                                                          *)
(***************************************************************************)
Missing == [kind |-> "missing"]
Literal(s) == [kind |-> "literal", s |-> s]
Fn == [kind |-> "fn"]
Entries == {Missing, Literal(<<>>), Literal(<<"X">>), Fn}

RECURSIVE SeqsUpTo(_, _)
SeqsUpTo(S, n) ==
    IF n = 0 THEN {<<>>}
    ELSE LET shorter == SeqsUpTo(S, n - 1)
         IN shorter \cup {Append(s, x) : s \in {q \in shorter : Len(q) = n - 1}, x \in S}

(***************************************************************************)
(* Promises: the state of the promise _callAsyncHook returned for plugin k *)
(***************************************************************************)
NoPromise == [st |-> "none", v |-> Undefined]
PendingPromise == [st |-> "pending", v |-> Undefined]
Fulfilled(v) == [st |-> "fulfilled", v |-> v]
Rejected(e) == [st |-> "rejected", v |-> e]
IsSettled(p) == p.st \in {"fulfilled", "rejected"}

\* what one invocation of a callable hook does
Returns(v) == [k |-> "return", v |-> v]
Throws == [k |-> "throw"]
ReturnsPromise == [k |-> "promise"]
NoOutcome == [k |-> "none"]

\* plugin.error.wrapAsync(hr): surfaces the rejection of the hook's promise
WrapAsync(settlement) == settlement

_callAsyncHook(entry, o, k) ==
    IF entry.kind = "literal" THEN Fulfilled(Str(entry.s))
    ELSE IF entry.kind = "fn"
         THEN CASE o.k = "return" -> Fulfilled(o.v)
                [] o.k = "throw" -> Rejected(Err(k, "throw"))
                [] OTHER -> PendingPromise
         ELSE Fulfilled(Undefined)

_callSyncHook(entry, o, k) ==
    IF entry.kind = "fn"
    THEN CASE o.k = "return" -> Fulfilled(o.v)
           [] OTHER -> Rejected(Err(k, "throw"))
    ELSE IF entry.kind = "literal" /\ entry.s # <<>>
         THEN Rejected(Err(k, "typeerror"))
         ELSE Fulfilled(Undefined)

\* whether the call reaches plugin.execute[hook].apply(plugin.context, args)
Applies(entry) == entry.kind = "fn"

(***************************************************************************)
(* State.  plugins: container.__plugins, the hook entry of each plugin in  *)
(* registration order.  calls: the lifecycle and dispatch calls the host   *)
(* has issued, each with its locals.  running: the call that holds the     *)
(* thread, 0 when every call is suspended or finished.                     *)
(* external: config.external.  meta: container.__meta, module id to its    *)
(* accumulated properties.  current: the container's transient transform  *)
(* fields.  bundle: the array of output records the host owns and passes   *)
(* to generateBundle.                                                      *)
(***************************************************************************)
VARIABLES plugins, external, bundle, meta, current, calls, running

vars == <<plugins, external, bundle, meta, current, calls, running>>

MaxCalls == 2
CallIds == 1..MaxCalls

\* the host awaits the call it has issued before it issues the next one
OneAtATime == {1}

\* the array that is the local mapChain of call c: __currentMapChain is
\* that same array, not a copy
ArrayOf(c) == [t |-> "array", owner |-> c]

\* __currentMapChain, __currentOriginalCode, __currentModuleId all null
NoCurrent == [mapChain |-> Null, originalCode |-> Null, moduleId |-> Null]

\* container.__plugins.length
NumPlugins == Len(plugins)

GenericMethods ==
    {"callAsyncFirstHook", "callAsyncSequentialHook", "callAsyncParallelHook",
     "callSyncFirstHook", "callSyncSequentialHook"}

\* the facade methods that join what the plugins return
OutputMethods == {"banner", "footer", "intro", "outro"}

\* the calling convention each entry point dispatches with
Conv(method) ==
    CASE method = "callAsyncFirstHook" -> "asyncFirst"
      [] method = "callAsyncSequentialHook" -> "asyncSeq"
      [] method = "callAsyncParallelHook" -> "asyncPar"
      [] method = "callSyncFirstHook" -> "syncFirst"
      [] method = "callSyncSequentialHook" -> "syncSeq"
      [] method \in OutputMethods -> "asyncPar"
      [] method \in {"resolveId", "load", "resolveDynamicImport"} -> "asyncFirst"
      [] method \in {"transform", "generateBundle"} -> "asyncSeq"
      [] method = "watchChange" -> "syncSeq"
      [] OTHER -> "none"

IsAsync(conv) == conv \in {"asyncFirst", "asyncSeq", "asyncPar"}
IsFirst(conv) == conv \in {"asyncFirst", "syncFirst"}
IsSequential(conv) == conv \in {"asyncSeq", "syncSeq"}

IdleCall ==
    [method |-> "idle", args |-> [hookArgs |-> <<>>], pc |-> "idle", idx |-> 0,
     output |-> Undefined, prom |-> <<>>, firstRej |-> 0, trace |-> <<>>,
     waited |-> {}, settleOrder |-> <<>>, hr |-> Undefined,
     mapChain |-> <<>>, syntheticNamedExports |-> Undefined, merges |-> <<>>,
     fellBack |-> FALSE, readDisk |-> FALSE, combinerArgs |-> <<>>, metaAtStart |-> <<>>,
     view |-> <<>>, dynamic |-> <<>>,
     status |-> "none", result |-> Undefined]

\* module ids and paths, as the sequence of their segments
ModA == <<"/", "m">>
ModB == <<"/", "n">>
Cwd == <<"/", "proj">>

\* the meta objects hook results carry
Meta(props) == [t |-> "object", props |-> props]
MetaValues == {Undefined, Meta([x |-> Num(1)]), Meta([x |-> Num(2), y |-> Num(1)])}

\* a source map with the given mappings
SourceMap(mappings) == [t |-> "object", mappings |-> Str(mappings)]

ResolveIdValues ==
    {Undefined, Null, Bool(FALSE), Num(0), Str(<<>>),
     Str(<<"/", "lib", "..", "m">>), Str(<<"virtual">>)}
    \cup {Obj([id |-> Str(ModA), external |-> Bool(FALSE), meta |-> mv]) : mv \in MetaValues}

LoadValues ==
    {Undefined, Null, Str(<<"c">>)}
    \cup {Obj([code |-> Str(code), meta |-> mv]) : code \in {<<"c">>, <<>>}, mv \in MetaValues}

TransformValues ==
    {Undefined, Null, Str(<<"c1">>),
     Obj([code |-> Str(<<"c2">>), map |-> SourceMap(<<"m2">>), meta |-> Meta([x |-> Num(1)])]),
     Obj([meta |-> Meta([x |-> Num(2), y |-> Num(1)]), syntheticNamedExports |-> Bool(TRUE)]),
     Obj([code |-> Str(<<"c4">>), map |-> SourceMap(<<>>),
          syntheticNamedExports |-> Str(<<"__sne">>)]),
     Obj([code |-> Str(<<>>), syntheticNamedExports |-> Bool(FALSE)])}

DynamicImportValues ==
    {Undefined, Null, Bool(FALSE), Num(0), Str(<<"/", "dyn">>),
     Obj([id |-> Str(ModA)]), Obj([id |-> Str(<<"jquery">>), external |-> Bool(TRUE)])}

\* the values a hook of the method may produce
HookValues(method) ==
    CASE method \in {"callAsyncFirstHook", "callSyncFirstHook"} ->
            {Undefined, Null, Bool(FALSE), Num(0), Str(<<>>), Str(<<"X">>), Str(<<"Y">>)}
      [] method \in {"callAsyncSequentialHook", "callSyncSequentialHook"} ->
            {Undefined, Null, Num(0), Num(1), Num(3)}
      [] method \in OutputMethods ->
            {Undefined, Null, Str(<<>>), Str(<<"a">>), Str(<<"b">>)}
      [] method = "resolveId" -> ResolveIdValues
      [] method = "load" -> LoadValues
      [] method = "resolveDynamicImport" -> DynamicImportValues
      [] method = "transform" -> TransformValues
      [] OTHER -> {Undefined, Str(<<>>), Str(<<"X">>)}

\* what a callable hook may do when it is invoked
Outcomes(method) ==
    IF IsAsync(Conv(method))
    THEN {Returns(v) : v \in HookValues(method)} \cup {Throws, ReturnsPromise}
    ELSE {Returns(v) : v \in HookValues(method) \cup {PromiseObj}} \cup {Throws}

\* the merge functions a caller of the sequential dispatch supplies:
\* "add" sums numbers, "replace" takes the result (output = hr)
Merge(kind, hr, output) ==
    IF kind = "add" /\ hr.t = "number" /\ output.t = "number"
    THEN Num(hr.n + output.n)
    ELSE hr

\* fromResult(hr, output) of the running call
fromResult(cs, hr) ==
    IF cs.method = "callAsyncSequentialHook"
    THEN Merge(cs.args.fromResult, hr, cs.output)
    ELSE IF cs.method = "generateBundle" THEN Undefined
    ELSE hr

toArgs_Seed(cs) ==
    CASE cs.method = "callAsyncSequentialHook" -> <<cs.args.start>>
      [] cs.method = "transform" -> <<cs.args.code, cs.args.id>>
      [] OTHER -> <<cs.output>>

\* the Proxy generateBundle hands to the hooks in place of the bundle
bundleObj == [t |-> "proxy"]

\* the caller-supplied projection of callAsyncSequentialHook: of transform,
\* (input) => [input.code, input.id]; of generateBundle,
\* () => [outputOptions, bundleObj]
toArgs(cs) ==
    IF cs.method = "transform"
    THEN <<Prop(cs.output, "code"), Prop(cs.output, "id")>>
    ELSE IF cs.method = "generateBundle"
    THEN <<cs.args.outputOptions, bundleObj>>
    ELSE <<cs.output>>

\* the arguments the hook of the current plugin is applied to
HookArgs(cs) ==
    IF IsSequential(Conv(cs.method)) THEN toArgs(cs) ELSE cs.args.hookArgs

Decision_SwallowFailure(conv, p) ==
    IF p.st = "rejected" \/ IsAbsent(p.v) THEN "next"
    ELSE IF IsFirst(conv) THEN "return" ELSE "merge"

\* what the loop does with the result of one plugin
Decision(conv, p) ==
    IF p.st = "rejected" THEN "fail"
    ELSE IF IsAbsent(p.v) THEN "next"
    ELSE IF IsFirst(conv) THEN "return" ELSE "merge"

AwaitsEach_Never(conv) == FALSE

AwaitsEach_Always(conv) == IsAsync(conv)

\* the conventions whose loop awaits the hook of one plugin before the next
AwaitsEach(conv) == conv \in {"asyncFirst", "asyncSeq"}

\* the dispatch call fails: nothing in the dispatcher or the facade catches
Fail(cs, e) == [cs EXCEPT !.pc = "done", !.status = "failed", !.result = e]

\* the dispatch function returns v: to the host, or to the facade method
\* that awaits it (let hr = await call...Hook(...))
DispatchDone(cs, v) ==
    IF cs.method \in GenericMethods
    THEN [cs EXCEPT !.pc = "done", !.status = "returned", !.result = v]
    ELSE [cs EXCEPT !.pc = "post", !.hr = v]

\* the facade method returns v
Return(cs, v) == [cs EXCEPT !.pc = "done", !.status = "returned", !.result = v]

\* the value the loop falls out with
LoopResult(cs) ==
    CASE IsSequential(Conv(cs.method)) -> cs.output
      [] OTHER -> Undefined

\* i++ and the loop test
Advance(cs) ==
    IF cs.idx < NumPlugins
    THEN [cs EXCEPT !.idx = @ + 1, !.pc = "call"]
    ELSE DispatchDone(cs, LoopResult(cs))

\* the property key a value is used as
MetaKey(v) == IF v.t = "string" THEN v.s ELSE <<"undefined">>

handleMetaProperty_Replace(m, filePath, mv) ==
    IF ~Truthy(mv) THEN m
    ELSE [k \in DOMAIN m \cup {filePath} |-> IF k = filePath THEN mv.props ELSE m[k]]

\* container.__meta after handleMetaProperty(container, filePath, mv)
handleMetaProperty(m, filePath, mv) ==
    IF ~Truthy(mv) THEN m
    ELSE LET fileMeta == IF filePath \in DOMAIN m THEN m[filePath] ELSE <<>>
             merged == [prop \in DOMAIN fileMeta \cup DOMAIN mv.props |->
                          IF prop \in DOMAIN mv.props THEN mv.props[prop]
                          ELSE fileMeta[prop]]
         IN [k \in DOMAIN m \cup {filePath} |-> IF k = filePath THEN merged ELSE m[k]]

\* the merges of meta a call has made: what it merged into which module,
\* and what the module had before
LogMerge(cs, m, filePath, mv) ==
    IF ~Truthy(mv) THEN cs
    ELSE [cs EXCEPT !.merges =
            Append(@, [id |-> filePath, props |-> mv.props,
                       before |-> IF filePath \in DOMAIN m THEN <<m[filePath]>> ELSE <<>>])]

push_Front(array, e) == <<e>> \o array

\* array.push(e)
push(array, e) == Append(array, e)

\* the merge function of transform: the call, the metadata and the
\* container's transient fields after fromResult(result, input)
TransformMerge(c, cs, hr) ==
    LET result == IF hr.t = "string" THEN Obj([code |-> hr]) ELSE hr
        rmap == Prop(result, "map")
        map == IF rmap.t = "object" /\ ~Truthy(Prop(rmap, "mappings"))
               THEN Undefined ELSE rmap
        id == cs.args.id
        sne == Prop(result, "syntheticNamedExports")
        code == Prop(result, "code")
        cs1 == LogMerge(cs, meta, MetaKey(id), Prop(result, "meta"))
        cs2 == [cs1 EXCEPT !.syntheticNamedExports =
                               IF Truthy(sne) /\ @ = Undefined THEN sne ELSE @]
        entry == [code |-> code, map |-> map]
    IN [cs |-> IF code # Undefined
               THEN [cs2 EXCEPT !.mapChain = push(@, entry),
                                !.output = Obj([code |-> code, id |-> id, map |-> map])]
               ELSE cs2,
        meta |-> handleMetaProperty(meta, MetaKey(id), Prop(result, "meta")),
        current |-> current]

\* output = fromResult(hr, output), with what fromResult does to the container
MergeStep(c, cs, hr) ==
    IF cs.method = "transform"
    THEN TransformMerge(c, cs, hr)
    ELSE [cs |-> [cs EXCEPT !.output = fromResult(cs, hr)], meta |-> meta, current |-> current]

Same(cs) == [cs |-> cs, meta |-> meta, current |-> current]

\* the loop body after the hook's result hr is known
AfterResult(c, cs, p) ==
    LET d == Decision(Conv(cs.method), p)
    IN CASE d = "fail" -> Same(Fail(cs, p.v))
         [] d = "return" -> Same(DispatchDone(cs, p.v))
         [] d = "merge" -> LET m == MergeStep(c, cs, p.v)
                           IN [m EXCEPT !.cs = Advance(@)]
         [] OTHER -> Same(Advance(cs))

Holder(c, cs) == IF cs.pc \in {"call", "check"} THEN c ELSE 0

GenericArgs(method) ==
    CASE method = "callAsyncSequentialHook" ->
            {[fromResult |-> f, start |-> Num(0)] : f \in {"replace", "add"}}
      [] method = "callSyncSequentialHook" -> {[hookArgs |-> <<Num(0)>>]}
      [] OTHER -> {[hookArgs |-> a] : a \in {<<>>, <<Str(<<"X">>)>>}}

\* the call as it enters the loop of its dispatch function, output = start
Enter(method, a, start) ==
    LET cs0 == [IdleCall EXCEPT
                  !.method = method, !.args = a, !.idx = 1, !.pc = "call",
                  !.output = start, !.metaAtStart = meta,
                  !.prom = [k \in 1..NumPlugins |-> NoPromise]]
    IN IF NumPlugins = 0
       THEN DispatchDone(cs0, IF Conv(method) = "asyncPar" THEN List(<<>>)
                               ELSE LoopResult(cs0))
       ELSE cs0

\* the host calls a dispatch function
StartDispatch(c) ==
    /\ running = 0
    /\ calls[c].pc = "idle"
    /\ \E method \in GenericMethods :
         \E a \in GenericArgs(method) :
            LET cs1 == Enter(method, a,
                             CASE method = "callAsyncSequentialHook" -> a.start
                               [] method = "callSyncSequentialHook" -> a.hookArgs[1]
                               [] OTHER -> Undefined)
            IN /\ calls' = [calls EXCEPT ![c] = cs1]
               /\ running' = Holder(c, cs1)
    /\ UNCHANGED <<plugins, external, bundle, meta, current>>

\* one pass of the loop: the hook of plugin idx is called
Invoke(c) ==
    /\ running = c
    /\ calls[c].pc = "call"
    /\ LET cs == calls[c]
           k == cs.idx
           conv == Conv(cs.method)
           entry == plugins[k]
       IN \E o \in (IF entry.kind = "fn" THEN Outcomes(cs.method) ELSE {NoOutcome}) :
            LET p == IF IsAsync(conv) THEN _callAsyncHook(entry, o, k)
                                      ELSE _callSyncHook(entry, o, k)
                cs1 == [cs EXCEPT
                          !.prom[k] = p,
                          !.firstRej = IF @ = 0 /\ p.st = "rejected" THEN k ELSE @,
                          !.trace = IF Applies(entry)
                                    THEN Append(@, [p |-> k, a |-> HookArgs(cs)])
                                    ELSE @,
                          !.waited = IF p.st = "pending" THEN @ \cup {k} ELSE @,
                          !.settleOrder = IF IsSettled(p) THEN Append(@, k) ELSE @]
                cs2 == IF ~IsAsync(conv) THEN [cs1 EXCEPT !.pc = "check"]
                       ELSE IF AwaitsEach(conv) \/ k = NumPlugins
                            THEN [cs1 EXCEPT !.pc = "await"]
                            ELSE [cs1 EXCEPT !.idx = k + 1]
            IN /\ calls' = [calls EXCEPT ![c] = cs2]
               /\ running' = Holder(c, cs2)
    /\ UNCHANGED <<plugins, external, bundle, meta, current>>

\* the promise a hook returned settles
Settle(c) ==
    /\ running = 0
    /\ \E k \in 1..Len(calls[c].prom) :
         /\ calls[c].prom[k].st = "pending"
         /\ \E s \in {Fulfilled(v) : v \in HookValues(calls[c].method)}
                     \cup {Rejected(Err(k, "reject"))} :
              calls' = [calls EXCEPT
                          ![c].prom[k] = WrapAsync(s),
                          ![c].settleOrder = Append(@, k),
                          ![c].firstRej = IF @ = 0 /\ s.st = "rejected" THEN k ELSE @]
    /\ UNCHANGED <<plugins, external, bundle, meta, current, running>>

\* the awaited promise has settled: the loop of a first or sequential
\* dispatch continues
Resume(c) ==
    /\ running = 0
    /\ calls[c].pc = "await"
    /\ AwaitsEach(Conv(calls[c].method))
    /\ IsSettled(calls[c].prom[calls[c].idx])
    /\ LET r == AfterResult(c, calls[c], calls[c].prom[calls[c].idx])
       IN /\ calls' = [calls EXCEPT ![c] = r.cs]
          /\ running' = Holder(c, r.cs)
          /\ meta' = r.meta
          /\ current' = r.current
    /\ UNCHANGED <<plugins, external, bundle>>

\* Promise.all(hookResults) settles
Join(c) ==
    /\ running = 0
    /\ calls[c].pc = "await"
    /\ ~AwaitsEach(Conv(calls[c].method))
    /\ LET cs == calls[c]
       IN IF cs.firstRej # 0
          THEN calls' = [calls EXCEPT ![c] = Fail(cs, cs.prom[cs.firstRej].v)]
          ELSE /\ \A k \in 1..NumPlugins : cs.prom[k].st = "fulfilled"
               /\ calls' = [calls EXCEPT ![c] =
                              DispatchDone(cs, List([k \in 1..NumPlugins |-> cs.prom[k].v]))]
    /\ UNCHANGED <<plugins, external, bundle, meta, current, running>>

\* a sync dispatch looks at what the hook returned
Check(c) ==
    /\ running = c
    /\ calls[c].pc = "check"
    /\ LET r == AfterResult(c, calls[c], calls[c].prom[calls[c].idx])
       IN /\ calls' = [calls EXCEPT ![c] = r.cs]
          /\ running' = Holder(c, r.cs)
          /\ meta' = r.meta
          /\ current' = r.current
    /\ UNCHANGED <<plugins, external, bundle>>

\* a new container: no metadata, no transform in flight
InitContainer ==
    /\ meta = <<>>
    /\ current = NoCurrent
    /\ calls = [c \in CallIds |-> IdleCall]
    /\ running = 0

InitDispatch ==
    /\ bundle = <<>>
    /\ plugins \in SeqsUpTo(Entries, MaxPlugins)
    /\ external = [kind |-> "none"]
    /\ InitContainer

NextDispatch ==
    \E c \in OneAtATime :
        \/ StartDispatch(c)
        \/ Invoke(c)
        \/ Settle(c)
        \/ Resume(c)
        \/ Join(c)
        \/ Check(c)

SpecDispatch == InitDispatch /\ [][NextDispatch]_vars

(***************************************************************************)
(* banner, footer, intro, outro                                            *)
(***************************************************************************)
\* an element as Array.prototype.join writes it: undefined and null as ""
JoinElement(v) == IF v.t = "string" THEN v.s ELSE <<>>

\* results.join(sep)
RECURSIVE join(_, _)
join(l, sep) ==
    IF l = <<>> THEN <<>>
    ELSE IF Len(l) = 1 THEN JoinElement(l[1])
    ELSE JoinElement(l[1]) \o sep \o join(Tail(l), sep)

\* the host calls banner(), footer(), intro() or outro()
StartOutput(c) ==
    /\ running = 0
    /\ calls[c].pc = "idle"
    /\ \E method \in OutputMethods :
         calls' = [calls EXCEPT ![c] = Enter(method, [hookArgs |-> <<>>], Undefined)]
    /\ running' = IF NumPlugins = 0 THEN 0 ELSE c
    /\ UNCHANGED <<plugins, external, bundle, meta, current>>

\* return results.join('\n')
ReturnJoined(c) ==
    /\ running = 0
    /\ calls[c].pc = "post"
    /\ calls[c].method \in OutputMethods
    /\ calls' = [calls EXCEPT ![c] = Return(@, Str(join(@.hr.l, <<"\n">>)))]
    /\ UNCHANGED <<plugins, external, bundle, meta, current, running>>

InitOutput ==
    /\ bundle = <<>>
    /\ plugins \in SeqsUpTo(Entries, MaxPlugins)
    /\ external = [kind |-> "none"]
    /\ InitContainer

NextOutput ==
    \E c \in OneAtATime :
        \/ StartOutput(c)
        \/ Invoke(c)
        \/ Settle(c)
        \/ Join(c)
        \/ ReturnJoined(c)

SpecOutput == InitOutput /\ [][NextOutput]_vars

(***************************************************************************)
(* resolveId, load, transform                                              *)
(***************************************************************************)
MaxBuildPlugins == 2

\* path.isAbsolute
IsAbsolute(path) == path # <<>> /\ path[1] = "/"

\* the segments of a path with "." dropped and ".." resolved, onto acc
RECURSIVE NormalizeOnto(_, _, _)
NormalizeOnto(segs, acc, floor) ==
    IF segs = <<>> THEN acc
    ELSE LET h == Head(segs)
         IN CASE h = "." -> NormalizeOnto(Tail(segs), acc, floor)
              [] h = ".." /\ Len(acc) > floor /\ acc[Len(acc)] # ".." ->
                    NormalizeOnto(Tail(segs), SubSeq(acc, 1, Len(acc) - 1), floor)
              [] h = ".." /\ floor = 1 -> NormalizeOnto(Tail(segs), acc, floor)
              [] OTHER -> NormalizeOnto(Tail(segs), Append(acc, h), floor)

\* path.normalize
Normalize(path) ==
    IF IsAbsolute(path) THEN NormalizeOnto(Tail(path), <<"/">>, 1)
    ELSE LET n == NormalizeOnto(path, <<>>, 0)
         IN IF n = <<>> THEN <<".">> ELSE n

\* path.dirname
Dirname(path) == IF Len(path) > 1 THEN SubSeq(path, 1, Len(path) - 1) ELSE path

\* resolvePath(target, current) of ./utils: target against the directory of
\* current
resolvePath(target, from) ==
    IF IsAbsolute(target) THEN Normalize(target)
    ELSE Normalize(Dirname(from) \o target)

isExternal_ArrayOnly(config, name) == config.kind = "array" /\ name \in config.names

\* isExternal(config, name)
isExternal(config, name) ==
    CASE config.kind = "array" -> name \in config.names
      [] config.kind = "function" -> name \in config.truthyFor
      [] OTHER -> FALSE

\* the values of config.external: none, an array, a predicate (by the names
\* it answers truthy for), or something that is neither
ExternalConfigs ==
    {[kind |-> "none"], [kind |-> "array", names |-> {<<"jquery">>}],
     [kind |-> "function", truthyFor |-> {<<"jquery">>}], [kind |-> "other"]}

Specifiers == {<<".", "x">>, <<"jquery">>}
ParentPaths == {Undefined, Str(<<"/", "src", "main.js">>)}

\* the host calls resolveId(id, parentFilePath)
StartResolveId(c) ==
    /\ running = 0
    /\ calls[c].pc = "idle"
    /\ \E id \in Specifiers, parent \in ParentPaths :
         LET a == [id |-> Str(id), parentFilePath |-> parent,
                   hookArgs |-> <<Str(id), parent>>]
         IN calls' = [calls EXCEPT ![c] = Enter("resolveId", a, Undefined)]
    /\ running' = IF NumPlugins = 0 THEN 0 ELSE c
    /\ UNCHANGED <<plugins, external, bundle, meta, current>>

\* PluginLifecycle.resolveId after the dispatch: the branches on hr
ResolveIdResult(cs) ==
    LET hr == cs.hr
        id == cs.args.id
        parentFilePath == cs.args.parentFilePath
    IN IF hr = Bool(FALSE) \/ isExternal(external, id.s)
       THEN [external |-> TRUE, fellBack |-> FALSE,
             hr |-> Obj([id |-> id, external |-> Bool(TRUE)])]
       ELSE LET hr1 == IF hr.t = "string"
                       THEN Obj([id |-> Str(IF IsAbsolute(hr.s) THEN Normalize(hr.s)
                                            ELSE hr.s),
                                 external |-> Bool(FALSE)])
                       ELSE hr
                parent == IF Truthy(parentFilePath) THEN parentFilePath.s
                          ELSE Cwd \o <<"__entry">>
            IN IF ~Truthy(hr1)
               THEN [external |-> FALSE, fellBack |-> TRUE,
                     hr |-> Obj([id |-> Str(Normalize(resolvePath(id.s, parent))),
                                 external |-> Bool(FALSE)])]
               ELSE [external |-> FALSE, fellBack |-> FALSE, hr |-> hr1]

\* the rest of PluginLifecycle.resolveId once the dispatch has returned
PostResolveId(c) ==
    /\ running = 0
    /\ calls[c].pc = "post"
    /\ calls[c].method = "resolveId"
    /\ LET cs == calls[c]
           r == ResolveIdResult(cs)
           key == MetaKey(Prop(r.hr, "id"))
           mv == Prop(r.hr, "meta")
       IN IF r.external
          THEN /\ calls' = [calls EXCEPT ![c] = Return(cs, r.hr)]
               /\ meta' = meta
          ELSE /\ calls' = [calls EXCEPT ![c] =
                              Return([LogMerge(cs, meta, key, mv) EXCEPT
                                         !.fellBack = r.fellBack], r.hr)]
               /\ meta' = handleMetaProperty(meta, key, mv)
    /\ UNCHANGED <<plugins, external, bundle, current, running>>

\* the host calls load(filePath, parentFilePath)
StartLoad(c) ==
    /\ running = 0
    /\ calls[c].pc = "idle"
    /\ \E filePath \in {ModA, ModB} :
         LET a == [filePath |-> Str(filePath), hookArgs |-> <<Str(filePath), Undefined>>]
         IN calls' = [calls EXCEPT ![c] = Enter("load", a, Undefined)]
    /\ running' = IF NumPlugins = 0 THEN 0 ELSE c
    /\ UNCHANGED <<plugins, external, bundle, meta, current>>

\* what fs.readFileSync(filePath, 'utf8') does: the text of the file, or
\* an exception
DiskReads == {Fulfilled(Str(<<"disk">>)), Rejected(Err(0, "fs"))}

\* the rest of load once the dispatch has returned
PostLoad(c) ==
    /\ running = 0
    /\ calls[c].pc = "post"
    /\ calls[c].method = "load"
    /\ LET cs == calls[c]
           hr == cs.hr
       IN IF hr.t = "string"
          THEN /\ calls' = [calls EXCEPT ![c] = Return(cs, Obj([code |-> hr]))]
               /\ meta' = meta
          ELSE IF hr.t = "object" /\ Truthy(Prop(hr, "code"))
          THEN /\ calls' = [calls EXCEPT ![c] =
                              Return(LogMerge(cs, meta, cs.args.filePath.s, Prop(hr, "meta")),
                                     hr)]
               /\ meta' = handleMetaProperty(meta, cs.args.filePath.s, Prop(hr, "meta"))
          ELSE /\ \E read \in DiskReads :
                    calls' = [calls EXCEPT ![c] =
                                LET cs1 == [cs EXCEPT !.readDisk = TRUE]
                                IN IF read.st = "fulfilled"
                                   THEN Return(cs1, Obj([code |-> read.v]))
                                   ELSE Fail(cs1, read.v)]
               /\ meta' = meta
    /\ UNCHANGED <<plugins, external, bundle, current, running>>

\* the host calls transform(code, id): the container's transient fields are
\* set and the dispatch starts
StartTransform(c) ==
    /\ running = 0
    /\ calls[c].pc = "idle"
    /\ \E id \in {ModA, ModB} :
         LET code == Str(<<"src">> \o id)
             a == [code |-> code, id |-> Str(id)]
             seed == Obj([code |-> code, id |-> Str(id), map |-> Null,
                          syntheticNamedExports |-> Bool(FALSE)])
         IN /\ calls' = [calls EXCEPT ![c] = Enter("transform", a, seed)]
            /\ current' = [mapChain |-> ArrayOf(c),
                           originalCode |-> code, moduleId |-> Str(id)]
    /\ running' = IF NumPlugins = 0 THEN 0 ELSE c
    /\ UNCHANGED <<plugins, external, bundle, meta>>

combinerInput_FromContainer(c) ==
    <<IF current.mapChain.t = "array" THEN calls[current.mapChain.owner].mapChain
      ELSE <<>>,
      current.originalCode, current.moduleId>>

\* the arguments of combineSourceMapChainFast(mapChain, originalCode, id):
\* the locals of the call
combinerInput(c) == <<calls[c].mapChain, calls[c].args.code, calls[c].args.id>>

\* transform once the dispatch has returned: the map chain, the original
\* code and the id go to combineSourceMapChainFast
PostTransform(c) ==
    /\ running = 0
    /\ calls[c].pc = "post"
    /\ calls[c].method = "transform"
    /\ calls' = [calls EXCEPT
                    ![c].pc = "combine",
                    ![c].combinerArgs = combinerInput(c)]
    /\ UNCHANGED <<plugins, external, bundle, meta, current, running>>

\* what combineSourceMapChainFast(mapChain, originalCode, id) gives: the
\* map combined from its arguments
CombinedMap(args) == [t |-> "object", combinedFrom |-> args]

\* combineSourceMapChainFast has settled: the transient fields are reset and
\* transform returns, or the combiner raised and transform fails
AfterCombine(c) ==
    /\ running = 0
    /\ calls[c].pc = "combine"
    /\ LET cs == calls[c]
       IN \E ok \in BOOLEAN :
            IF ok
            THEN /\ current' = NoCurrent
                 /\ calls' = [calls EXCEPT ![c] =
                       Return(cs, Obj([code |-> Prop(cs.hr, "code"),
                                       map |-> CombinedMap(cs.combinerArgs),
                                       syntheticNamedExports |-> cs.syntheticNamedExports]))]
            ELSE /\ current' = current
                 /\ calls' = [calls EXCEPT ![c] = Fail(cs, Err(0, "combine"))]
    /\ UNCHANGED <<plugins, external, bundle, meta, running>>

\* the facade methods that are declared and not implemented
UnimplementedMethods == {"renderDynamicImport", "augmentChunkHash", "writeBundle"}

triggerNotImplemented_Silent(name, args) == Fulfilled(Undefined)

\* triggerNotImplemented(name, args): throws Error('"<name>" not implemented')
triggerNotImplemented(name, args) ==
    Rejected([t |-> "error", plugin |-> 0, how |-> "not implemented",
              message |-> <<"\"", name, "\" not implemented">>])

\* the host calls renderDynamicImport(...args), augmentChunkHash(...args) or
\* writeBundle(...args)
CallUnimplemented(c) ==
    /\ running = 0
    /\ calls[c].pc = "idle"
    /\ \E method \in UnimplementedMethods, a \in {<<>>, <<Str(<<"X">>)>>, <<Undefined, Num(1)>>} :
         LET cs == [IdleCall EXCEPT !.method = method, !.args = [hookArgs |-> a],
                                    !.metaAtStart = meta]
             r == triggerNotImplemented(method, a)
         IN calls' = [calls EXCEPT ![c] = IF r.st = "rejected" THEN Fail(cs, r.v)
                                          ELSE Return(cs, Undefined)]
    /\ UNCHANGED <<plugins, external, bundle, meta, current, running>>

\* the host is done with the outcome of a call
Release(c) ==
    /\ calls[c].pc = "done"
    /\ calls' = [calls EXCEPT ![c] = IdleCall]
    /\ UNCHANGED <<plugins, external, bundle, meta, current, running>>

InitResolve ==
    /\ bundle = <<>>
    /\ plugins \in SeqsUpTo(Entries, MaxBuildPlugins)
    /\ external \in ExternalConfigs
    /\ InitContainer

NextResolve ==
    \E c \in OneAtATime :
        \/ StartResolveId(c)
        \/ Invoke(c)
        \/ Settle(c)
        \/ Resume(c)
        \/ PostResolveId(c)
        \/ Release(c)

SpecResolve == InitResolve /\ [][NextResolve]_vars

InitBuild ==
    /\ bundle = <<>>
    /\ plugins \in SeqsUpTo({Fn, Missing}, MaxBuildPlugins)
    /\ external = [kind |-> "none"]
    /\ InitContainer

NextBuild ==
    \E c \in OneAtATime :
        \/ StartResolveId(c)
        \/ StartLoad(c)
        \/ StartTransform(c)
        \/ Invoke(c)
        \/ Settle(c)
        \/ Resume(c)
        \/ PostResolveId(c)
        \/ PostLoad(c)
        \/ PostTransform(c)
        \/ AfterCombine(c)
        \/ CallUnimplemented(c)
        \/ Release(c)

SpecBuild == InitBuild /\ [][NextBuild]_vars

(***************************************************************************)
(* Two transform calls in flight at once: the host issues the second while *)
(* the first is suspended at an await.                                     *)
(***************************************************************************)
MaxInterleavedPlugins == 1

\* the two calls the host has in flight together
Interleaved == {1, 2}

InitInterleaved ==
    /\ bundle = <<>>
    /\ plugins \in SeqsUpTo({Fn}, MaxInterleavedPlugins)
    /\ external = [kind |-> "none"]
    /\ InitContainer

\* the host transforms each module once: the two calls are for two modules;
\* the calls are numbered in the order the host issues them
StartOther(c) ==
    /\ StartTransform(c)
    /\ \A d \in Interleaved : d < c => calls[d].pc # "idle"
    /\ \A d \in Interleaved \ {c} :
         calls[d].method = "transform" => calls[d].args.id # calls'[c].args.id

NextInterleaved ==
    \E c \in Interleaved :
        \/ StartOther(c)
        \/ Invoke(c)
        \/ Settle(c)
        \/ Resume(c)
        \/ PostTransform(c)
        \/ AfterCombine(c)

SpecInterleaved == InitInterleaved /\ [][NextInterleaved]_vars

(***************************************************************************)
(* resolveDynamicImport                                                    *)
(***************************************************************************)
\* typeof v
TypeOf(v) ==
    IF v.t \in {"object", "null", "array", "promise", "error", "proxy"} THEN "object"
    ELSE v.t

\* the specifier of a dynamic import: its text, or the parsed expression
\* node when it is not a plain string
ESNode == [t |-> "object", type |-> "TemplateLiteral"]
DynamicSpecifiers == {Str(<<".", "x">>), ESNode}

\* the host calls resolveDynamicImport(id, parentFilePath)
StartResolveDynamicImport(c) ==
    /\ running = 0
    /\ calls[c].pc = "idle"
    /\ \E id \in DynamicSpecifiers, parent \in ParentPaths :
         LET a == [id |-> id, parentFilePath |-> parent, hookArgs |-> <<id, parent>>]
         IN calls' = [calls EXCEPT ![c] = Enter("resolveDynamicImport", a, Undefined)]
    /\ running' = IF NumPlugins = 0 THEN 0 ELSE c
    /\ UNCHANGED <<plugins, external, bundle, meta, current>>

\* what resolveDynamicImport does with the dispatch result: it returns a
\* value, or goes on to PluginLifecycle.resolveId
DynamicImportResult(hr, id) ==
    IF hr = Bool(FALSE) \/ (TypeOf(hr) = "object" /\ Truthy(Prop(hr, "external")))
    THEN [static |-> FALSE, v |-> Bool(FALSE)]
    ELSE IF TypeOf(hr) = "string" THEN [static |-> FALSE, v |-> Obj([id |-> hr])]
    ELSE IF TypeOf(hr) = "object" THEN [static |-> FALSE, v |-> hr]
    ELSE IF TypeOf(id) = "object" THEN [static |-> FALSE, v |-> Bool(FALSE)]
    ELSE [static |-> TRUE, v |-> Undefined]

\* the rest of resolveDynamicImport once the dispatch has returned
PostResolveDynamicImport(c) ==
    /\ running = 0
    /\ calls[c].pc = "post"
    /\ calls[c].method = "resolveDynamicImport"
    /\ LET cs == calls[c]
           r == DynamicImportResult(cs.hr, cs.args.id)
           static == [Enter("resolveId", cs.args, Undefined) EXCEPT
                        !.dynamic = <<[hr |-> cs.hr, id |-> cs.args.id,
                                       trace |-> cs.trace]>>]
       IN IF r.static
          THEN /\ calls' = [calls EXCEPT ![c] = static]
               /\ running' = Holder(c, static)
          ELSE /\ calls' = [calls EXCEPT ![c] = Return(cs, r.v)]
               /\ running' = running
    /\ UNCHANGED <<plugins, external, bundle, meta, current>>

InitDynamic ==
    /\ bundle = <<>>
    /\ plugins \in SeqsUpTo({Fn, Missing}, MaxBuildPlugins)
    /\ external = [kind |-> "none"]
    /\ InitContainer

NextDynamic ==
    \E c \in OneAtATime :
        \/ StartResolveDynamicImport(c)
        \/ Invoke(c)
        \/ Settle(c)
        \/ Resume(c)
        \/ PostResolveDynamicImport(c)
        \/ PostResolveId(c)

SpecDynamic == InitDynamic /\ [][NextDynamic]_vars

(***************************************************************************)
(* watchChange                                                             *)
(***************************************************************************)
\* the host calls watchChange(filePath)
StartWatchChange(c) ==
    /\ running = 0
    /\ calls[c].pc = "idle"
    /\ \E filePath \in {ModA, ModB} :
         LET a == [filePath |-> Str(filePath), hookArgs |-> <<Str(filePath)>>]
             cs == Enter("watchChange", a, a.hookArgs[1])
         IN /\ calls' = [calls EXCEPT ![c] = cs]
            /\ running' = Holder(c, cs)
    /\ UNCHANGED <<plugins, external, bundle, meta, current>>

\* watchChange once the dispatch has returned: its value is dropped
PostWatchChange(c) ==
    /\ running = 0
    /\ calls[c].pc = "post"
    /\ calls[c].method = "watchChange"
    /\ calls' = [calls EXCEPT ![c] = Return(@, Undefined)]
    /\ UNCHANGED <<plugins, external, bundle, meta, current, running>>

InitWatch ==
    /\ bundle = <<>>
    /\ plugins \in SeqsUpTo(Entries, MaxPlugins)
    /\ external = [kind |-> "none"]
    /\ InitContainer

NextWatch ==
    \E c \in OneAtATime :
        \/ StartWatchChange(c)
        \/ Invoke(c)
        \/ Check(c)
        \/ PostWatchChange(c)

SpecWatch == InitWatch /\ [][NextWatch]_vars

(***************************************************************************)
(* generateBundle: the hooks see the host's array of output records        *)
(* through a Proxy that answers by file name.                              *)
(***************************************************************************)
MaxViewOps == 2

FileNames == {"a.js", "b.js"}

\* an output record (a chunk or an asset) with its file name
OutputRecord(name, source) ==
    [t |-> "object", fileName |-> Str(<<name>>), source |-> Str(<<source>>)]

\* the arrays the host passes: records with file names of their own
HostBundles ==
    {<<>>, <<OutputRecord("a.js", "old")>>,
     <<OutputRecord("b.js", "old"), OutputRecord("a.js", "old")>>}

\* array.map(e => e.fileName)
FileNamesOf(array) == [i \in 1..Len(array) |-> Prop(array[i], "fileName")]

\* array.find(e => e.fileName === prop)
find(array, prop) ==
    LET hits == {i \in 1..Len(array) : Prop(array[i], "fileName") = prop}
    IN IF hits = {} THEN Undefined
       ELSE array[CHOOSE i \in hits : \A j \in hits : i <= j]

\* the set trap: bundle.push(value)
set(array, prop, value) == push(array, value)

\* what Object.keys(bundleObj) gives: the list of the ownKeys trap, or, from
\* an engine that enforces the Proxy invariant, a TypeError when the trap's
\* list holds a name twice
OwnKeys(array) ==
    LET keys == FileNamesOf(array)
    IN {List(keys)} \cup
       IF \E i, j \in 1..Len(keys) : i # j /\ keys[i] = keys[j]
       THEN {Err(0, "typeerror")} ELSE {}

\* the host calls generateBundle(outputOptions, bundle)
StartGenerateBundle(c) ==
    /\ running = 0
    /\ calls[c].pc = "idle"
    /\ LET a == [outputOptions |-> Obj([format |-> Str(<<"esm">>)])]
       IN calls' = [calls EXCEPT ![c] = Enter("generateBundle", a, [t |-> "object"])]
    /\ running' = IF NumPlugins = 0 THEN 0 ELSE c
    /\ UNCHANGED <<plugins, external, bundle, meta, current>>

\* the hook of the current plugin is running and may use the view
HookHasView(c) ==
    /\ running = c
    /\ calls[c].pc = "call"
    /\ calls[c].method = "generateBundle"
    /\ Applies(plugins[calls[c].idx])
    /\ Len(calls[c].view) < MaxViewOps

\* the use of the view the call records
Used(c, use) == [calls EXCEPT ![c].view = Append(@, use @@ [plugin |-> calls[c].idx])]

\* the hook reads bundleObj[prop]
HookReads(c) ==
    /\ HookHasView(c)
    /\ \E name \in FileNames :
         LET prop == Str(<<name>>)
         IN calls' = Used(c, [op |-> "get", prop |-> prop, result |-> find(bundle, prop)])
    /\ UNCHANGED <<plugins, external, bundle, meta, current, running>>

\* the hook assigns bundleObj[prop] = value
HookWrites(c) ==
    /\ HookHasView(c)
    /\ \E name \in FileNames, valueName \in FileNames :
         LET prop == Str(<<name>>)
             value == OutputRecord(valueName, "new")
         IN /\ bundle' = set(bundle, prop, value)
            /\ calls' = Used(c, [op |-> "set", prop |-> prop, value |-> value])
    /\ UNCHANGED <<plugins, external, meta, current, running>>

\* the hook enumerates the keys of bundleObj
HookEnumerates(c) ==
    /\ HookHasView(c)
    /\ \E keys \in OwnKeys(bundle) :
         calls' = Used(c, [op |-> "ownKeys", result |-> keys])
    /\ UNCHANGED <<plugins, external, bundle, meta, current, running>>

\* generateBundle once the dispatch has returned: it returns nothing
PostGenerateBundle(c) ==
    /\ running = 0
    /\ calls[c].pc = "post"
    /\ calls[c].method = "generateBundle"
    /\ calls' = [calls EXCEPT ![c] = Return(@, Undefined)]
    /\ UNCHANGED <<plugins, external, bundle, meta, current, running>>

InitBundle ==
    /\ bundle \in HostBundles
    /\ plugins \in SeqsUpTo({Fn, Missing}, MaxBuildPlugins)
    /\ external = [kind |-> "none"]
    /\ InitContainer

NextBundle ==
    \E c \in OneAtATime :
        \/ StartGenerateBundle(c)
        \/ HookReads(c)
        \/ HookWrites(c)
        \/ HookEnumerates(c)
        \/ Invoke(c)
        \/ Settle(c)
        \/ Resume(c)
        \/ PostGenerateBundle(c)

SpecBundle == InitBundle /\ [][NextBundle]_vars

(***************************************************************************)
(* lib/__es2cjs.js: the import and export declarations of a module are     *)
(* rewritten to require and module.exports statements.  The text put in    *)
(* place of a declaration is the sequence of its statements.               *)
(***************************************************************************)
MaxNodes == 3

\* the specifiers of a declaration
ImportDefaultSpecifier(local) == [type |-> "ImportDefaultSpecifier", local |-> local]
ImportSpecifier(local, imported) ==
    [type |-> "ImportSpecifier", local |-> local, imported |-> imported]
ExportSpecifier(local, exported) ==
    [type |-> "ExportSpecifier", local |-> local, exported |-> exported]

\* the top-level nodes acorn gives for: import 'src'; import d, {n as m} from
\* 'src'; export {x as y} from 'src'; export {x as y}; export * from 'src';
\* and a statement that is no import or export
ImportDeclaration(src, specifiers) ==
    [type |-> "ImportDeclaration", source |-> src, specifiers |-> specifiers]
ExportNamedDeclaration(src, specifiers) ==
    [type |-> "ExportNamedDeclaration", source |-> src, specifiers |-> specifiers]
ExportAllDeclaration(src) ==
    [type |-> "ExportAllDeclaration", source |-> src, specifiers |-> <<>>]
ExpressionStatement == [type |-> "ExpressionStatement", source |-> "", specifiers |-> <<>>]

\* an export {…} without from has no source
NoSource == ""

Sources == {"./a", "jquery"}

Nodes ==
    {ImportDeclaration(src, sp) :
        src \in Sources,
        sp \in {<<>>, <<ImportDefaultSpecifier("d"), ImportSpecifier("m", "n")>>}}
    \cup {ExportNamedDeclaration(src, <<ExportSpecifier("x", "y")>>) :
            src \in Sources \cup {NoSource}}
    \cup {ExportAllDeclaration(src) : src \in Sources}
    \cup {ExpressionStatement}

\* isExternal(context, name) of __es2cjs.js, on context.options.external
isExternalName(config, name) ==
    CASE config.kind = "array" -> <<name>> \in config.names
      [] config.kind = "function" -> <<name>> \in config.truthyFor
      [] OTHER -> FALSE

\* the statements of the emitted code
RequireStatement(alias, placeholder) ==
    [stmt |-> "require", alias |-> alias, placeholder |-> placeholder]
WindowStatement(alias, globalName) ==
    [stmt |-> "window", alias |-> alias, globalName |-> globalName]
VarStatement(local, alias, member) ==
    [stmt |-> "var", local |-> local, alias |-> alias, member |-> member]
ExportStatement(exported, alias, member) ==
    [stmt |-> "export", exported |-> exported, alias |-> alias, member |-> member]
ExportAllStatement(alias) == [stmt |-> "exportAll", alias |-> alias]

\* `_i${importIndex}`, `__nollup__${importIndex}`, '_e' + globalName
Indexed(prefix, index) == [prefix |-> prefix, index |-> index]
Named(prefix, name) == [prefix |-> prefix, name |-> name]
NoAlias == [prefix |-> "", name |-> ""]

importIndex_FromOne(response) == Len(response.dependencies) + 1

\* let importIndex = response.dependencies.length
importIndex(response) == Len(response.dependencies)

\* the var statements for the import specifiers of a node
SpecifierStatements(specifiers, alias, viaWindow) ==
    LET imports == SelectSeq(specifiers, LAMBDA sp :
                       sp.type \in {"ImportDefaultSpecifier", "ImportSpecifier"})
    IN [j \in 1..Len(imports) |->
          VarStatement(imports[j].local, alias,
                       IF imports[j].type = "ImportSpecifier" THEN imports[j].imported
                       ELSE IF viaWindow THEN "default?" ELSE "default")]

\* resolveExternalImport: {transpiled, importAlias}, response untouched
resolveExternalImport(response, node) ==
    LET named == node.specifiers # <<>> \/ node.type = "ExportAllDeclaration"
        defaults == SelectSeq(node.specifiers,
                              LAMBDA sp : sp.type = "ImportDefaultSpecifier")
        globalName == IF defaults # <<>> THEN defaults[1].local ELSE node.source
        alias == IF named THEN Named("_e", globalName) ELSE NoAlias
    IN [transpiled |-> (IF named THEN <<WindowStatement(alias, globalName)>> ELSE <<>>)
                       \o SpecifierStatements(node.specifiers, alias, TRUE),
        importAlias |-> alias,
        response |-> response]

\* resolveInternalImport: {transpiled, importAlias}, and the response with
\* the source pushed onto its dependencies
resolveInternalImport(response, node) ==
    LET index == importIndex(response)
        alias == Indexed("_i", index)
    IN [transpiled |-> <<RequireStatement(alias, Indexed("__nollup__", index))>>
                       \o SpecifierStatements(node.specifiers, alias, FALSE),
        importAlias |-> alias,
        response |-> [response EXCEPT !.dependencies = push(@, node.source)]]

\* resolveImport(context, response, node)
resolveImport(config, response, node) ==
    IF isExternalName(config, node.source)
    THEN resolveExternalImport(response, node)
    ELSE resolveInternalImport(response, node)

\* the module.exports statements of the export specifiers of a node
ExportStatements(specifiers, alias) ==
    LET exports == SelectSeq(specifiers, LAMBDA sp : sp.type = "ExportSpecifier")
    IN [j \in 1..Len(exports) |->
          ExportStatement(exports[j].exported, alias, exports[j].local)]

\* one pass of the loop over ast.body: the response after node i
VisitNode(config, response, node, i) ==
    CASE node.type = "ImportDeclaration" ->
            LET r == resolveImport(config, response, node)
            IN [r.response EXCEPT !.output[i] = r.transpiled]
      [] node.type = "ExportNamedDeclaration" ->
            IF node.source # NoSource
            THEN LET r == resolveImport(config, response, node)
                 IN [r.response EXCEPT !.output[i] =
                        r.transpiled \o ExportStatements(node.specifiers, r.importAlias)]
            ELSE [response EXCEPT !.output[i] = ExportStatements(node.specifiers, NoAlias)]
      [] node.type = "ExportAllDeclaration" ->
            LET r == resolveImport(config, response, node)
            IN [r.response EXCEPT !.output[i] =
                   r.transpiled \o <<ExportAllStatement(r.importAlias)>>]
      [] OTHER -> response

\* the host calls the transform on the text of a module: acorn parses it,
\* or the call throws the diagnostic
StartEs2cjs(c) ==
    /\ running = 0
    /\ calls[c].pc = "idle"
    /\ \/ \E body \in SeqsUpTo(Nodes, MaxNodes) :
            LET cs == [IdleCall EXCEPT
                         !.method = "es2cjs", !.args = [body |-> body], !.idx = 1,
                         !.output = [output |-> [i \in 1..Len(body) |-> <<>>],
                                     dependencies |-> <<>>],
                         !.pc = "visit"]
            IN /\ calls' = [calls EXCEPT ![c] = cs]
               /\ running' = c
       \/ /\ calls' = [calls EXCEPT ![c] =
                           Fail([IdleCall EXCEPT !.method = "es2cjs"], Err(0, "SyntaxError"))]
          /\ running' = 0
    /\ UNCHANGED <<plugins, external, bundle, meta, current>>

\* the loop over ast.body, and the return after the last node
VisitNext(c) ==
    /\ running = c
    /\ calls[c].pc = "visit"
    /\ LET cs == calls[c]
           body == cs.args.body
       IN IF cs.idx <= Len(body)
          THEN /\ calls' = [calls EXCEPT
                               ![c].output = VisitNode(external, cs.output, body[cs.idx], cs.idx),
                               ![c].idx = cs.idx + 1]
               /\ running' = c
          ELSE /\ calls' = [calls EXCEPT ![c] = Return(cs, cs.output)]
               /\ running' = 0
    /\ UNCHANGED <<plugins, external, bundle, meta, current>>

InitEs2cjs ==
    /\ bundle = <<>>
    /\ plugins = <<>>
    /\ external \in ExternalConfigs
    /\ InitContainer

NextEs2cjs ==
    \E c \in OneAtATime :
        \/ StartEs2cjs(c)
        \/ VisitNext(c)

SpecEs2cjs == InitEs2cjs /\ [][NextEs2cjs]_vars

(***************************************************************************)
(* What the properties below read off a call.                              *)
(***************************************************************************)
NoOpinion(v) == v = Undefined \/ v = Null

\* the plugins whose hook the call has applied, in the order it applied them
InvokedPlugins(cs) == [j \in 1..Len(cs.trace) |-> cs.trace[j].p]

\* the plugins among the first m that have a callable hook, in registration order
CallablesUpTo(m) == SelectSeq([k \in 1..m |-> k], LAMBDA k : plugins[k].kind = "fn")

\* the plugins the loop has reached
Visited(cs) == {k \in 1..Len(cs.prom) : cs.prom[k].st # "none"}

SetMax(S) == IF S = {} THEN 0 ELSE CHOOSE x \in S : \A y \in S : y <= x
SetMin(S) == CHOOSE x \in S : \A y \in S : x <= y

\* the plugins whose hook gave a result that is not absent
Opinions(cs) ==
    {k \in 1..Len(cs.prom) : cs.prom[k].st = "fulfilled" /\ ~NoOpinion(cs.prom[k].v)}

\* the accumulator of a sequential dispatch after the first k plugins
RECURSIVE AccAfter(_, _)
AccAfter(cs, k) ==
    IF k = 0 THEN cs.args.start
    ELSE LET before == AccAfter(cs, k - 1)
             r == cs.prom[k].v
         IN IF NoOpinion(r) THEN before ELSE Merge(cs.args.fromResult, r, before)

OrderedConvs == {"asyncFirst", "asyncSeq", "syncFirst", "syncSeq"}

\* C1: async-first dispatch applies the hooks in registration order, each with
\* the call's arguments, returns the result of the first plugin whose result is
\* neither null nor undefined (false, 0 and "" are results), applies no hook of
\* a plugin registered after that one, and returns undefined when every plugin
\* is absent.
C1_AsyncFirstReturnsFirstOpinion ==
    \A c \in CallIds :
        LET cs == calls[c]
        IN cs.method = "callAsyncFirstHook" =>
            /\ InvokedPlugins(cs) = CallablesUpTo(SetMax(Visited(cs)))
            /\ \A j \in 1..Len(cs.trace) : cs.trace[j].a = cs.args.hookArgs
            /\ \A k \in Opinions(cs) : \A j \in 1..NumPlugins : j > k => cs.prom[j].st = "none"
            /\ cs.status = "returned" =>
                 IF Opinions(cs) = {}
                 THEN cs.result = Undefined /\ Visited(cs) = 1..NumPlugins
                 ELSE cs.result = cs.prom[SetMin(Opinions(cs))].v

\* C1 witness: P1 returns undefined, P2 returns "X", P3 is never applied and
\* the call returns "X".
C1_Witness ==
    \E c \in CallIds :
        /\ calls[c].method = "callAsyncFirstHook"
        /\ plugins = <<Fn, Fn, Fn>>
        /\ calls[c].status = "returned"
        /\ calls[c].prom[1] = Fulfilled(Undefined)
        /\ calls[c].prom[2] = Fulfilled(Str(<<"X">>))
        /\ InvokedPlugins(calls[c]) = <<1, 2>>
        /\ calls[c].result = Str(<<"X">>)

\* C2: async-sequential dispatch starts from the seed, visits every plugin in
\* registration order, applies each hook to the projection of the accumulator
\* as it stands then, merges every result that is not absent, and returns the
\* accumulator after the last plugin.
C2_AsyncSequentialFolds ==
    \A c \in CallIds :
        LET cs == calls[c]
        IN cs.method = "callAsyncSequentialHook" =>
            /\ InvokedPlugins(cs) = CallablesUpTo(SetMax(Visited(cs)))
            /\ \A j \in 1..Len(cs.trace) :
                 cs.trace[j].a = <<AccAfter(cs, cs.trace[j].p - 1)>>
            /\ cs.status = "returned" =>
                 /\ \A k \in 1..NumPlugins : cs.prom[k].st = "fulfilled"
                 /\ cs.result = AccAfter(cs, NumPlugins)

\* C2 witness: seed 0, plugins giving +1, absent, +3: the call returns 4.
C2_Witness ==
    \E c \in CallIds :
        /\ calls[c].method = "callAsyncSequentialHook"
        /\ calls[c].args = [fromResult |-> "add", start |-> Num(0)]
        /\ plugins = <<Fn, Fn, Fn>>
        /\ calls[c].status = "returned"
        /\ calls[c].prom = <<Fulfilled(Num(1)), Fulfilled(Undefined), Fulfilled(Num(3))>>
        /\ calls[c].trace[3].a = <<Num(1)>>
        /\ calls[c].result = Num(4)

\* C3: async-parallel dispatch has applied the hook of every plugin when it
\* first waits for a result, returns only when every hook has completed, and
\* returns one entry per plugin in registration order whatever order the hooks
\* finished in.
C3_AsyncParallelStartsAllThenJoins ==
    \A c \in CallIds :
        LET cs == calls[c]
        IN cs.method = "callAsyncParallelHook" =>
            /\ cs.pc = "await" =>
                 /\ InvokedPlugins(cs) = CallablesUpTo(NumPlugins)
                 /\ Visited(cs) = 1..NumPlugins
            /\ cs.status = "returned" =>
                 /\ \A k \in 1..NumPlugins : cs.prom[k].st = "fulfilled"
                 /\ cs.result.t = "array"
                 /\ Len(cs.result.l) = NumPlugins
                 /\ \A k \in 1..NumPlugins : cs.result.l[k] = cs.prom[k].v

\* C3 witness: three hooks finish in the order 3, 1, 2 and the list returned
\* is in registration order.
C3_Witness ==
    \E c \in CallIds :
        /\ calls[c].method = "callAsyncParallelHook"
        /\ calls[c].status = "returned"
        /\ calls[c].settleOrder = <<3, 1, 2>>
        /\ calls[c].result = List(<<Str(<<"X">>), Undefined, Str(<<>>)>>)

\* C4: in the first-wins and sequential conventions a hook is applied only
\* when the hook of every earlier plugin has completed with a known result.
C4_NextStartsAfterPreviousKnown ==
    \A c \in CallIds :
        LET cs == calls[c]
        IN Conv(cs.method) \in OrderedConvs =>
            \A j \in 1..Len(cs.trace) :
                \A i \in 1..NumPlugins : i < cs.trace[j].p => cs.prom[i].st = "fulfilled"

\* C4 witness: the hook of plugin 1 returned a promise that was pending, and
\* the hook of plugin 2 has been applied.
C4_Witness ==
    \E c \in CallIds :
        /\ Conv(calls[c].method) \in {"asyncFirst", "asyncSeq"}
        /\ 1 \in calls[c].waited
        /\ Len(calls[c].trace) >= 2
        /\ calls[c].trace[2].p = 2

\* C5: in the first-wins and sequential conventions, once the hook of plugin
\* k has raised or rejected no later plugin is reached, the call does not
\* return, and when it ends it has failed with the failure of plugin k.
C5_FailureAbortsDispatch ==
    \A c \in CallIds :
        LET cs == calls[c]
        IN Conv(cs.method) \in OrderedConvs =>
            /\ \A k \in 1..NumPlugins :
                 cs.prom[k].st = "rejected" =>
                    /\ \A j \in 1..NumPlugins : j > k => cs.prom[j].st = "none"
                    /\ \A j \in 1..Len(cs.trace) : cs.trace[j].p <= k
                    /\ cs.status # "returned"
                    /\ cs.pc = "done" =>
                         /\ cs.status = "failed"
                         /\ cs.result.t = "error"
                         /\ cs.result.plugin = k
                         /\ cs.result = cs.prom[k].v
            /\ cs.status = "failed" => \E k \in 1..NumPlugins : cs.prom[k].st = "rejected"

\* C5 witness: the promise of plugin 2 of 3 rejects in a sequential dispatch.
C5_Witness ==
    \E c \in CallIds :
        /\ calls[c].method = "callAsyncSequentialHook"
        /\ NumPlugins = 3
        /\ calls[c].status = "failed"
        /\ calls[c].result = Err(2, "reject")
        /\ Len(calls[c].trace) = 2

\* the strings among l joined with a newline between them
RECURSIVE Lines(_)
Lines(l) ==
    IF l = <<>> THEN <<>>
    ELSE IF Len(l) = 1 THEN l[1].s
    ELSE l[1].s \o <<"\n">> \o Lines(Tail(l))

\* C6: banner, footer, intro and outro return the strings the plugins returned
\* joined with a newline, in plugin order, a plugin that returned absent (or
\* has no hook) contributing no line.
C6_JoinSkipsAbsent ==
    \A c \in CallIds :
        LET cs == calls[c]
        IN (cs.method \in OutputMethods /\ cs.status = "returned") =>
            cs.result = Str(Lines(SelectSeq([k \in 1..NumPlugins |-> cs.prom[k].v],
                                            LAMBDA v : ~NoOpinion(v))))

\* the specifier matches the configured external list or predicate
SpecifierIsExternal(name) ==
    \/ external.kind = "array" /\ name \in external.names
    \/ external.kind = "function" /\ name \in external.truthyFor

\* C7: resolveId returns exactly {id: specifier, external: true} whenever the
\* dispatch result is false or the specifier matches the external list or
\* predicate, whatever the plugins returned, and the metadata is then as it
\* was when the call started.
C7_ExternalResolution ==
    \A c \in CallIds :
        LET cs == calls[c]
        IN (/\ cs.method = "resolveId"
            /\ cs.status = "returned"
            /\ (cs.hr = Bool(FALSE) \/ SpecifierIsExternal(cs.args.id.s))) =>
               /\ cs.result = [t |-> "object", id |-> cs.args.id, external |-> Bool(TRUE)]
               /\ meta = cs.metaAtStart

\* C7 witness: the specifier is matched by the external predicate and a plugin
\* resolved it to an object carrying meta.
C7_Witness ==
    \E c \in CallIds :
        /\ calls[c].method = "resolveId"
        /\ calls[c].status = "returned"
        /\ external.kind = "function"
        /\ calls[c].args.id = Str(<<"jquery">>)
        /\ calls[c].hr.t = "object"
        /\ Prop(calls[c].hr, "meta") = Meta([x |-> Num(1)])
        /\ calls[c].result = [t |-> "object", id |-> Str(<<"jquery">>), external |-> Bool(TRUE)]

\* C8: when resolveId does not answer 'external', it falls back to resolving
\* the specifier against the parent (or the synthetic entry path) if and only
\* if the dispatch result is absent; 0 and "" are opinions.
C8_FallbackIffNoOpinion ==
    \A c \in CallIds :
        LET cs == calls[c]
        IN (/\ cs.method = "resolveId"
            /\ cs.status = "returned"
            /\ ~(cs.hr = Bool(FALSE) \/ SpecifierIsExternal(cs.args.id.s))) =>
               (cs.fellBack <=> NoOpinion(cs.hr))

\* the step merges one hook result's meta into one module's metadata: its
\* properties are written, every other property and module is as before
MergesOnly(c) ==
    /\ Len(calls'[c].merges) = Len(calls[c].merges) + 1
    /\ LET e == calls'[c].merges[Len(calls'[c].merges)]
           old == IF e.id \in DOMAIN meta THEN meta[e.id] ELSE <<>>
       IN /\ DOMAIN meta' = DOMAIN meta \cup {e.id}
          /\ \A m \in DOMAIN meta : m # e.id => meta'[m] = meta[m]
          /\ DOMAIN meta'[e.id] = DOMAIN old \cup DOMAIN e.props
          /\ \A prop \in DOMAIN e.props : meta'[e.id][prop] = e.props[prop]
          /\ \A prop \in DOMAIN old \ DOMAIN e.props : meta'[e.id][prop] = old[prop]

\* C9: across resolveId, load and transform calls, failed ones included, the
\* metadata only accumulates: a step changes it only by merging a hook
\* result's meta, which overwrites the same-named properties of that module
\* and leaves every other property and every other module as they were.
C9_MetaAccumulates ==
    [][meta' = meta \/ \E c \in CallIds : MergesOnly(c)]_vars

\* C9 witness: a transform call that failed had merged {x: 1} into a module
\* that an earlier call had given {x: 2, y: 1}: x is overwritten, y persists.
C9_Witness ==
    \E c \in CallIds :
        /\ calls[c].method = "transform"
        /\ calls[c].status = "failed"
        /\ calls[c].merges = <<[id |-> ModA, props |-> [x |-> Num(1)],
                                before |-> <<[x |-> Num(2), y |-> Num(1)]>>]>>
        /\ ModA \in DOMAIN meta
        /\ meta[ModA] = [x |-> Num(1), y |-> Num(1)]

TransformInFlight == \E c \in CallIds : calls[c].method = "transform" /\ calls[c].pc # "done"

\* C10: whenever no transform call is in flight, the container's current map
\* chain, original code and module id are empty.
C10_TransientStateReset == ~TransformInFlight => current = NoCurrent

\* the transient fields as transform(code, id) of call c set them
OwnCurrent(c) ==
    [mapChain |-> ArrayOf(c), originalCode |-> calls[c].args.code,
     moduleId |-> calls[c].args.id]

\* a hook of the call is being applied, or its combiner step is running
HookOrCombinerRuns(cs) == cs.method = "transform" /\ cs.pc \in {"call", "combine"}

\* C11: with two transform calls for two different modules interleaved at
\* their awaits, whenever a hook or the combiner step of one call runs, the
\* container's current map chain, original code and module id are that call's
\* own: the start or the end of the other call has not replaced or cleared them.
C11_OwnTransientStateVisible ==
    \A c \in CallIds : HookOrCombinerRuns(calls[c]) => current = OwnCurrent(c)

\* the code a hook result carries: the result itself when it is a string
CodeOf(r) == IF r.t = "string" THEN r ELSE Prop(r, "code")

CarriesCode(r) == ~NoOpinion(r) /\ CodeOf(r) # Undefined

\* the map a hook result carries, one without mapping data counting as none
MapOf(r) ==
    LET m == Prop(r, "map")
    IN IF m.t = "object" /\ Prop(m, "mappings") \in {Undefined, Null, Str(<<>>)}
       THEN Undefined ELSE m

\* the results of the plugins that carried a code, in registration order
CodeResults(cs) ==
    SelectSeq([k \in 1..NumPlugins |-> cs.prom[k].v], CarriesCode)

\* C12: the map chain handed to the combiner has exactly one {code, map}
\* entry for each plugin result that carried a code, in registration order,
\* and none for a plugin that returned absent or a result without code; it
\* goes with the original code and the module id passed to transform.
C12_MapChainHandedToCombiner ==
    \A c \in CallIds :
        LET cs == calls[c]
        IN (cs.method = "transform" /\ cs.combinerArgs # <<>>) =>
            LET chain == cs.combinerArgs[1]
                carried == CodeResults(cs)
            IN /\ Len(chain) = Len(carried)
               /\ \A j \in 1..Len(chain) :
                    chain[j] = [code |-> CodeOf(carried[j]), map |-> MapOf(carried[j])]
               /\ cs.combinerArgs[2] = cs.args.code
               /\ cs.combinerArgs[3] = cs.args.id

\* C12 witness: P1 rewrote the code with a map, P2 rewrote it again, and the
\* combiner got the two entries, P1's first.
C12_Witness ==
    \E c \in CallIds :
        /\ calls[c].method = "transform"
        /\ calls[c].status = "returned"
        /\ plugins = <<Fn, Fn>>
        /\ calls[c].combinerArgs =
              <<  <<[code |-> Str(<<"c2">>), map |-> SourceMap(<<"m2">>)],
                    [code |-> Str(<<"c1">>), map |-> Undefined]>>,
                 Str(<<"src">> \o ModA), Str(ModA)>>

\* the code in the accumulator after the first k plugins: that of the latest
\* result that carried one, the original code when there is none
RECURSIVE CodeAfter(_, _)
CodeAfter(cs, k) ==
    IF k = 0 THEN cs.args.code
    ELSE IF CarriesCode(cs.prom[k].v) THEN CodeOf(cs.prom[k].v)
    ELSE CodeAfter(cs, k - 1)

\* C13: each transform hook is applied to (currentCode, id): the id passed to
\* transform and the code of the latest earlier result that carried a code, or
\* the original code; a result without code changes neither the next hook's
\* input nor the code transform returns.
C13_HookGetsCurrentCode ==
    \A c \in CallIds :
        LET cs == calls[c]
        IN cs.method = "transform" =>
            /\ \A j \in 1..Len(cs.trace) :
                 cs.trace[j].a = <<CodeAfter(cs, cs.trace[j].p - 1), cs.args.id>>
            /\ cs.status = "returned" =>
                 Prop(cs.result, "code") = CodeAfter(cs, NumPlugins)

\* C13 witness: P1 rewrote the code, P2 got P1's code and gave a result
\* without code, and transform returned P1's code.
C13_Witness ==
    \E c \in CallIds :
        /\ calls[c].method = "transform"
        /\ calls[c].status = "returned"
        /\ plugins = <<Fn, Fn>>
        /\ calls[c].prom[1].v = Str(<<"c1">>)
        /\ calls[c].prom[2].v.t = "object"
        /\ Prop(calls[c].prom[2].v, "code") = Undefined
        /\ calls[c].trace[2].a = <<Str(<<"c1">>), calls[c].args.id>>
        /\ Prop(calls[c].result, "code") = Str(<<"c1">>)

\* the result sets syntheticNamedExports: to true, to a name, or to false
SetsSyntheticNamedExports(r) ==
    r.t = "object" /\ "syntheticNamedExports" \in DOMAIN r

\* the plugins whose result sets syntheticNamedExports
Setters(cs) ==
    {k \in 1..Len(cs.prom) :
        cs.prom[k].st = "fulfilled" /\ SetsSyntheticNamedExports(cs.prom[k].v)}

\* C14: the syntheticNamedExports value transform returns is the one set by
\* the first plugin, in registration order, whose result sets it; what a later
\* plugin sets does not change it.
C14_FirstSyntheticNamedExportsWins ==
    \A c \in CallIds :
        LET cs == calls[c]
        IN (cs.method = "transform" /\ cs.status = "returned" /\ Setters(cs) # {}) =>
            Prop(cs.result, "syntheticNamedExports") =
                cs.prom[SetMin(Setters(cs))].v.syntheticNamedExports

\* the message of the failure: the quoted name of the hook, then the words
NamesHook(e, method) ==
    e.t = "error" /\ "message" \in DOMAIN e /\ e.message = <<"\"", method, "\" not implemented">>

\* C15: a call of renderDynamicImport, augmentChunkHash or writeBundle fails
\* with a 'not implemented' error whose message names the method, whatever the
\* plugin list and the arguments; it applies no plugin hook and the step leaves
\* the plugin list, the metadata and the transient fields as they were.
C15_UnimplementedAlwaysFails ==
    [][\A c \in CallIds :
        (calls[c].pc = "idle" /\ calls'[c].method \in UnimplementedMethods) =>
            /\ calls'[c].status = "failed"
            /\ NamesHook(calls'[c].result, calls'[c].method)
            /\ calls'[c].trace = <<>>
            /\ \A k \in 1..Len(calls'[c].prom) : calls'[c].prom[k].st = "none"
            /\ UNCHANGED <<plugins, external, bundle, meta, current>>]_vars

\* C15 witness: writeBundle failed by name while the container had a callable
\* plugin, metadata and a transient state left behind by a failed transform.
C15_Witness ==
    \E c \in CallIds :
        /\ calls[c].method = "writeBundle"
        /\ calls[c].status = "failed"
        /\ calls[c].result.message = <<"\"", "writeBundle", "\" not implemented">>
        /\ plugins = <<Fn, Fn>>
        /\ meta # <<>>
        /\ current # NoCurrent

\* the step is a use of the view by a hook of call c; the use it records
UsesView(c) == Len(calls'[c].view) = Len(calls[c].view) + 1
LatestUse(c) == calls'[c].view[Len(calls'[c].view)]

\* a record of the sequence carries the file name
Present(prop) == \E i \in 1..Len(bundle) : Prop(bundle[i], "fileName") = prop

WriteOfNewNameAppends(u) ==
    (u.op = "set" /\ ~Present(u.prop)) => bundle' = Append(bundle, u.value)

ReadOfPresentNameFinds(u) ==
    (u.op = "get" /\ Present(u.prop)) =>
        /\ \E i \in 1..Len(bundle) :
             bundle[i] = u.result /\ Prop(bundle[i], "fileName") = u.prop
        /\ bundle' = bundle

EnumerationInSequenceOrder(u) ==
    u.op = "ownKeys" =>
        /\ u.result = List([i \in 1..Len(bundle) |-> Prop(bundle[i], "fileName")])
        /\ bundle' = bundle

\* C16: through the bundle view of generateBundle, a write under a file name
\* not yet present appends exactly that one record at the end of the host's
\* sequence, a read by a file name that is present returns the record of the
\* sequence carrying it, key enumeration yields the file names in sequence
\* order, and each use acts on the sequence the host holds, so that a later
\* plugin of the dispatch sees what an earlier one wrote.
C16_BundleViewProjectsSequence ==
    [][\A c \in CallIds :
        UsesView(c) =>
            /\ WriteOfNewNameAppends(LatestUse(c))
            /\ ReadOfPresentNameFinds(LatestUse(c))
            /\ EnumerationInSequenceOrder(LatestUse(c))]_vars

\* C17: resolveDynamicImport goes on to the static resolveId path, and so to
\* the plugins' resolveId hooks, only when its own dispatch found no opinion
\* and the specifier is a plain string; with a specifier that is not a plain
\* string and no opinion it returns false and no resolveId hook is applied.
C17_StaticPathOnlyWithoutOpinion ==
    \A c \in CallIds :
        LET cs == calls[c]
        IN /\ cs.dynamic # <<>> =>
                /\ NoOpinion(cs.dynamic[1].hr)
                /\ cs.dynamic[1].id.t = "string"
           /\ (/\ cs.method = "resolveDynamicImport"
               /\ cs.pc = "done"
               /\ cs.status = "returned"
               /\ NoOpinion(cs.hr)
               /\ cs.args.id.t # "string") => cs.result = Bool(FALSE)

\* the node is an import, a re-export or an export-all: it names a source
NamesSource(node) ==
    \/ node.type \in {"ImportDeclaration", "ExportAllDeclaration"}
    \/ node.type = "ExportNamedDeclaration" /\ node.source # NoSource

\* the positions, among the first n nodes, of the declarations whose source
\* is internal, in encounter order
InternalDeclarations(body, n) ==
    SelectSeq([j \in 1..n |-> j],
              LAMBDA j : NamesSource(body[j]) /\ ~SpecifierIsExternal(<<body[j].source>>))

\* the require statements among the statements emitted for a node
Requires(statements) == SelectSeq(statements, LAMBDA st : st.stmt = "require")

\* C18: for every sequence of top-level import, re-export and export-all
\* declarations, the dependency list holds the sources of the internal ones in
\* encounter order; the k-th internal declaration (from 0) gets alias and
\* require placeholder k, a repeated source getting a fresh index; an external
\* declaration adds no dependency, emits no placeholder and uses no index.
C18_DependencyIndicesInEncounterOrder ==
    \A c \in CallIds :
        LET cs == calls[c]
        IN (cs.method = "es2cjs" /\ cs.status # "failed") =>
            LET body == cs.args.body
                internal == InternalDeclarations(body, cs.idx - 1)
                response == cs.output
            IN /\ Len(response.dependencies) = Len(internal)
               /\ \A k \in 1..Len(internal) :
                    LET reqs == Requires(response.output[internal[k]])
                    IN /\ response.dependencies[k] = body[internal[k]].source
                       /\ Len(reqs) = 1
                       /\ reqs[1].alias = [prefix |-> "_i", index |-> k - 1]
                       /\ reqs[1].placeholder = [prefix |-> "__nollup__", index |-> k - 1]
               /\ \A j \in 1..Len(body) :
                    (\A k \in 1..Len(internal) : internal[k] # j) =>
                        Requires(response.output[j]) = <<>>
               /\ cs.status = "returned" => cs.result = response /\ cs.idx = Len(body) + 1

\* C18 witness: import './a', then an import of the external 'jquery', then
\* export * from './a': the dependencies are './a', './a' and the export-all
\* requires placeholder 1.
C18_Witness ==
    \E c \in CallIds :
        /\ calls[c].method = "es2cjs"
        /\ calls[c].status = "returned"
        /\ external.kind = "array"
        /\ Len(calls[c].args.body) = 3
        /\ calls[c].args.body[1].type = "ImportDeclaration"
        /\ calls[c].args.body[2] = ImportDeclaration("jquery", <<>>)
        /\ calls[c].args.body[3] = ExportAllDeclaration("./a")
        /\ calls[c].result.dependencies = <<"./a", "./a">>
        /\ calls[c].result.output[2] = <<>>
        /\ calls[c].result.output[3][1] =
              [stmt |-> "require", alias |-> [prefix |-> "_i", index |-> 1],
               placeholder |-> [prefix |-> "__nollup__", index |-> 1]]

\* C19: load reads the file from disk only when no plugin produced an
\* opinion; a string result is returned as {code: result}; an object result
\* with a code property, the empty string included, is returned as it is,
\* its meta merged into the metadata of filePath, and the disk is not read.
C19_DiskOnlyWithoutOpinion ==
    \A c \in CallIds :
        LET cs == calls[c]
        IN (cs.method = "load" /\ cs.pc = "done") =>
            /\ cs.readDisk => NoOpinion(cs.hr)
            /\ cs.hr.t = "string" =>
                 cs.status = "returned" /\ cs.result = [t |-> "object", code |-> cs.hr]
            /\ (cs.hr.t = "object" /\ "code" \in DOMAIN cs.hr) =>
                 /\ cs.status = "returned"
                 /\ cs.result = cs.hr
                 /\ ~cs.readDisk
                 /\ cs.hr.meta # Undefined =>
                      /\ Len(cs.merges) = 1
                      /\ cs.merges[1].id = cs.args.filePath.s
                      /\ cs.merges[1].props = cs.hr.meta.props

\* C20: watchChange(filePath) applies the watchChange hook of every plugin
\* that has one, in registration order, each to the single argument filePath;
\* what a hook returns is not used and does not change what a later plugin
\* is given.
C20_EveryHookGetsFilePath ==
    \A c \in CallIds :
        LET cs == calls[c]
        IN cs.method = "watchChange" =>
            /\ InvokedPlugins(cs) = CallablesUpTo(SetMax(Visited(cs)))
            /\ \A j \in 1..Len(cs.trace) : cs.trace[j].a = <<cs.args.filePath>>
            /\ cs.status = "returned" =>
                 Visited(cs) = 1..NumPlugins /\ cs.result = Undefined

\* every record present before the step is still there, in the same order,
\* and what was added comes after
AppendOnly ==
    /\ Len(bundle') >= Len(bundle)
    /\ SubSeq(bundle', 1, Len(bundle)) = bundle

\* no two records of the sequence carry the same file name
UniqueFileNames ==
    \A i, j \in 1..Len(bundle) :
        Prop(bundle[i], "fileName") = Prop(bundle[j], "fileName") => i = j

\* C21: whatever the generateBundle hooks read and write through the bundle
\* view, the host's sequence only grows at its end, the records it held
\* staying in place, and no file name is carried by two records, also after
\* a write under a file name that is already present.
C21_AppendOnlyUniqueFileNames ==
    [][AppendOnly /\ UniqueFileNames']_vars

\* C22: in async-parallel dispatch, once the hook of plugin k has raised or
\* rejected, no hook of a plugin registered after k is applied, the call
\* returns no list, and when it ends it has failed with the failure of
\* plugin k.
C22_ParallelFailureAborts ==
    \A c \in CallIds :
        LET cs == calls[c]
        IN cs.method = "callAsyncParallelHook" =>
            \A k \in 1..NumPlugins :
                cs.prom[k].st = "rejected" =>
                    /\ \A j \in 1..Len(cs.trace) : cs.trace[j].p <= k
                    /\ cs.status # "returned"
                    /\ cs.pc = "done" =>
                         cs.status = "failed" /\ cs.result = cs.prom[k].v

\* the map chain built from the results of the call's own hooks alone, after
\* the first k plugins
RECURSIVE OwnChain(_, _)
OwnChain(cs, k) ==
    IF k = 0 THEN <<>>
    ELSE LET r == cs.prom[k].v
         IN IF CarriesCode(r)
            THEN Append(OwnChain(cs, k - 1), [code |-> CodeOf(r), map |-> MapOf(r)])
            ELSE OwnChain(cs, k - 1)

\* C23: however two in-flight transform calls interleave, what a call passes
\* to the combiner (map chain, original code, module id) and the code it
\* returns come from its own input and the results of its own hooks only,
\* never from a hook result of the other call.
C23_CombinerGetsOwnResultsOnly ==
    \A c \in Interleaved :
        LET cs == calls[c]
        IN cs.method = "transform" =>
            /\ cs.combinerArgs # <<>> =>
                 cs.combinerArgs = <<OwnChain(cs, Len(cs.prom)), cs.args.code, cs.args.id>>
            /\ cs.status = "returned" =>
                 Prop(cs.result, "code") = CodeAfter(cs, Len(cs.prom))

\* C23 witness: the call for one module is at its combiner step with the one
\* entry of its own hook while the call for the other module, started in
\* between, has returned with another entry of its own.
C23_Witness ==
    \E c, d \in Interleaved :
        /\ c # d
        /\ calls[c].method = "transform" /\ calls[d].method = "transform"
        /\ calls[c].args.id # calls[d].args.id
        /\ c \in {1, 2} /\ 1 \in calls[c].waited
        /\ calls[c].pc = "combine"
        /\ calls[c].combinerArgs[1] = <<[code |-> Str(<<"c2">>), map |-> SourceMap(<<"m2">>)]>>
        /\ calls[d].status = "returned"
        /\ calls[d].combinerArgs[1] = <<[code |-> Str(<<"c1">>), map |-> Undefined]>>
        /\ current = NoCurrent

====
